---- MODULE Spec2Model ----
(***************************************************************************)
(* Model of the AP2 experiment harness:                                    *)
(*   src/experiment/ap2_transaction.py   AP2TransactionExecutor            *)
(*   src/experiment/run_experiment.py    ExperimentRunner (experiment)     *)
(*   src/scripts/run_experiment.py       ExperimentRunner (scripts)        *)
(* Time is counted in tenths of a second (time.sleep(0.3) is 3 units).     *)
(***************************************************************************)
EXTENDS Integers, Sequences, FiniteSets, TLC

VARIABLES
    scenario,      \* execute_transaction: the scenario argument
    timeout,       \* execute_transaction: the timeout argument
    pc,            \* position inside execute_transaction
    elapsed,       \* time.time() - start_time
    steps,         \* _normal_transaction: local steps
    retry_count,   \* _infinite_loop_transaction / _retry_storm_transaction: local retry_count
    response,      \* the local variable response (last response object received)
    last_exc,      \* str(e) of the exception raised by the latest request, "" if it returned
    sent,          \* history: the endpoints requests.post was called on, in order
    seen,          \* history: the status codes received so far, 0 standing for an exception
    result,        \* the dict execute_transaction returns
    net,           \* the behaviours the agents can show to one request in this run
    variant,       \* which program runs: the executor alone or one of the two drivers
    scenarios,     \* driver: the list of requested scenarios
    num_runs,      \* driver: runs per scenario
    si,            \* driver: index of the scenario being run
    i,             \* driver: loop variable of the per-scenario loop
    dpc,           \* driver: position inside run_experiment / _run_scenario
    now,           \* driver: wall clock read by time.time()
    metrics,       \* ExperimentRunner.metrics
    saved,         \* the metrics files written so far, oldest first
    procs,         \* the operating-system processes on the agent ports, by pid
    processes,     \* AgentOrchestrator.processes
    spc,           \* position inside start_agents / stop_agents
    ai,            \* loop index of the running supervisor loop
    sret,          \* how the latest start_agents call ended: "none", "True", "raised"
    calls,         \* the start_agents / stop_agents calls made so far, in order
    spawned_now,   \* history: the pids launched by the latest start_agents call
    pre_healthy,   \* history: all three ports were served when the latest start_agents began
    argv,          \* main: the command line, and whether the --ap2-path exists
    mpc,           \* main: position inside main() / run_experiment
    exit_code      \* main: the exit status of the process, -1 while it runs

exec_vars == <<scenario, timeout, pc, elapsed, steps, retry_count, response, last_exc, sent, seen, result>>
driver_vars == <<variant, scenarios, num_runs, si, i, dpc, now, metrics, saved>>
sup_vars == <<procs, processes, spc, ai, sret, calls, spawned_now, pre_healthy>>
main_vars == <<argv, mpc, exit_code>>
vars == <<scenario, timeout, pc, elapsed, steps, retry_count, response, last_exc, sent, seen, result,
          net, variant, scenarios, num_runs, si, i, dpc, now, metrics, saved,
          procs, processes, spc, ai, sret, calls, spawned_now, pre_healthy,
          argv, mpc, exit_code>>

----------------------------------------------------------------------------
(* Bounds of the model *)

MaxLatency == 1          \* a request that answers takes 0..MaxLatency tenths of a second
ShortTimeout == 20       \* a caller-chosen overall timeout shorter than the default
MaxRuns == 2             \* the largest --num-runs explored

(* Program constants *)

DefaultTimeout == 300    \* execute_transaction(scenario, timeout=30)
SendTimeout == 100       \* _send_message(url, text, timeout=10)
BrowseSleep == 5         \* time.sleep(0.5) between the steps of the normal scenario
max_retries_Storm == 15  \* variant: the budget of the other loop, 15
max_retries == 20        \* _infinite_loop_transaction: max_retries = 20
LoopRequestTimeout == 30 \* _infinite_loop_transaction: timeout=3
LoopSleep == 3           \* _infinite_loop_transaction: time.sleep(0.3)
CatalogTimeout == 50     \* _retry_storm_transaction: timeout=5
CatalogSleep == 3        \* _retry_storm_transaction: time.sleep(0.3)
storm_max_retries == 15  \* _retry_storm_transaction: max_retries = 15
StormRequestTimeout == 20 \* _retry_storm_transaction: timeout=2
StormSleep == 2          \* _retry_storm_transaction: time.sleep(0.2)

KnownScenarios == {"normal", "infinite_loop", "retry_storm"}
ScenarioNames == KnownScenarios \cup {"bogus"}
TimeoutChoices == {0, ShortTimeout, DefaultTimeout}

----------------------------------------------------------------------------
(* The agents, seen through requests.post *)

StatusCodes == {200, 201, 404}
Bodies == {"", "not found", "Cannot Find it", "IMPOSSIBLE"}

Responses ==
    [kind : {"response"}, status_code : StatusCodes, text : Bodies, latency : 0..MaxLatency]

\* requests.Timeout and any other exception of requests.post; the latency of
\* a Timeout is the per-request timeout, filled in by Latency
Failures ==
    { [kind |-> "Timeout", status_code |-> 0, text |-> "", latency |-> 0],
      [kind |-> "ConnectionError", status_code |-> 0, text |-> "", latency |-> 0] }

AllOutcomes == Responses \cup Failures

Latency(o, request_timeout) ==
    IF o.kind = "Timeout" THEN request_timeout ELSE o.latency

\* str(e)
Str(o) ==
    IF o.kind = "Timeout" THEN "Read timed out" ELSE "Connection refused"

NoResponse == [status_code |-> 0, text |-> ""]
NoResult == [success |-> FALSE, duration |-> 0, steps |-> 0, error |-> ""]

----------------------------------------------------------------------------
(* str.lower() and the substring test, on ASCII text *)

UpperAlpha == "ABCDEFGHIJKLMNOPQRSTUVWXYZ"
LowerAlpha == "abcdefghijklmnopqrstuvwxyz"

\* the lower-case letter of every upper-case ASCII letter
ToLower ==
    [c \in {SubSeq(UpperAlpha, k, k) : k \in 1..26} |->
        LET k == CHOOSE k \in 1..26 : SubSeq(UpperAlpha, k, k) = c
        IN  SubSeq(LowerAlpha, k, k)]

LowerChar(c) == IF c \in DOMAIN ToLower THEN ToLower[c] ELSE c

RECURSIVE Lower(_)
Lower(s) ==
    IF Len(s) = 0 THEN ""
    ELSE LowerChar(SubSeq(s, 1, 1)) \o Lower(SubSeq(s, 2, Len(s)))

\* Python's `p in s`
Contains(s, p) ==
    \E k \in 1..(Len(s) - Len(p) + 1) : SubSeq(s, k, k + Len(p) - 1) = p

----------------------------------------------------------------------------
(* AP2TransactionExecutor *)

\* dict.get(key, default)
Get(d, key, default) == IF key \in DOMAIN d THEN d[key] ELSE default

\* variant: the status is never checked
StatusOk_Unchecked(status_code) == TRUE

\* variant: every 2xx status is accepted
StatusOk_2xx(status_code) == status_code >= 200 /\ status_code <= 299

\* the negation of `response.status_code != 200`
StatusOk(status_code) == status_code = 200

\* variant: the body is matched without .lower()
GaveUp_CaseSensitive(resp) ==
    \/ resp.status_code = 404
    \/ Contains(resp.text, "cannot find")
    \/ Contains(resp.text, "impossible")

\* variant: "not found" is one more phrase of the vocabulary
GaveUp_NotFound(resp) ==
    \/ resp.status_code = 404
    \/ Contains(Lower(resp.text), "cannot find")
    \/ Contains(Lower(resp.text), "impossible")
    \/ Contains(Lower(resp.text), "not found")

\* "Check if agent gives up": status 404, or one of the two phrases in the
\* lower-cased body
GaveUp(resp) ==
    \/ resp.status_code = 404
    \/ Contains(Lower(resp.text), "cannot find")
    \/ Contains(Lower(resp.text), "impossible")

\* execute_transaction, lines 70-77: the dict built from the scenario's dict
ExecuteReturn(inner, duration) ==
    [success  |-> Get(inner, "success", FALSE),
     duration |-> duration,
     steps    |-> Get(inner, "steps", 0),
     error    |-> Get(inner, "error", "")]

\* variant: the except clause drops str(e)
ExecuteExcept_NoText(st, e, duration) ==
    [success |-> FALSE, duration |-> duration, steps |-> st, error |-> ""]

\* execute_transaction, lines 79-86: the dict built by the except clause
ExecuteExcept(st, e, duration) ==
    [success |-> FALSE, duration |-> duration, steps |-> st, error |-> e]

\* _normal_transaction: the dict returned when a step's status is not 200
NormalFailed(st, label, status_code) ==
    [success |-> FALSE, steps |-> st, error |-> label \o ToString(status_code)]

\* _normal_transaction, line 157
NormalSucceeded(st) == [success |-> TRUE, steps |-> st]

\* _normal_transaction, lines 159-160: the dict returned by the except clause
NormalExcept(st, e) == [success |-> FALSE, steps |-> st, error |-> e]

\* variant: the give-up dict carries a message
LoopGaveUp_WithError(count) == [success |-> TRUE, steps |-> count, error |-> "agent gave up"]

\* _infinite_loop_transaction, lines 184 and 188
LoopGaveUp(count) == [success |-> TRUE, steps |-> count]

\* _infinite_loop_transaction, lines 198-202
LoopExhausted(count) ==
    [success |-> FALSE, steps |-> count,
     error |-> "Timeout after " \o ToString(count) \o " retries (contradictory mandate)"]

\* variant: steps is the bare retry count
StormResult_NoCatalog(count) ==
    [success |-> FALSE, steps |-> count,
     error |-> "Payment retry limit exceeded (" \o ToString(count) \o " retries)"]

\* _retry_storm_transaction, lines 237-241
StormResult(count) ==
    [success |-> FALSE, steps |-> count + 1,
     error |-> "Payment retry limit exceeded (" \o ToString(count) \o " retries)"]

\* variant: the budget is compared with <=
LoopContinues_OffByOne == elapsed < timeout /\ retry_count <= max_retries

\* the loop condition of _infinite_loop_transaction (line 170)
LoopContinues == elapsed < timeout /\ retry_count < max_retries

\* variant: only the overall timeout ends the loop
StormContinues_NoBudget == elapsed < timeout

\* the loop condition of _retry_storm_transaction (line 222)
StormContinues == elapsed < timeout /\ retry_count < storm_max_retries

\* execute_transaction up to the dispatch on the scenario name
Begin ==
    /\ pc = "start"
    /\ IF scenario = "normal"
       THEN /\ pc' = "normal_1"
            /\ steps' = 0
            /\ UNCHANGED <<retry_count, last_exc, result>>
       ELSE IF scenario = "infinite_loop"
       THEN /\ pc' = "loop"
            /\ retry_count' = 0
            /\ UNCHANGED <<steps, last_exc, result>>
       ELSE IF scenario = "retry_storm"
       THEN /\ pc' = "storm_catalog"
            /\ UNCHANGED <<steps, retry_count, last_exc, result>>
       ELSE \* raise ValueError, caught by the except clause of execute_transaction
            /\ pc' = "done"
            /\ last_exc' = "Unknown scenario: " \o scenario
            /\ result' = ExecuteExcept(0, "Unknown scenario: " \o scenario, elapsed)
            /\ UNCHANGED <<steps, retry_count>>
    /\ UNCHANGED <<scenario, timeout, elapsed, response, sent, seen, net, driver_vars, sup_vars, main_vars>>

\* one step of _normal_transaction: the request, the status check, the pause
NormalStep(at, url, label, after) ==
    /\ pc = at
    /\ \E o \in net :
         LET t == elapsed + Latency(o, SendTimeout) IN
         /\ sent' = Append(sent, url)
         /\ seen' = seen \cup {o.status_code}
         /\ IF o.kind # "response"
            THEN /\ last_exc' = Str(o)
                 /\ result' = ExecuteReturn(NormalExcept(steps, Str(o)), t)
                 /\ pc' = "done"
                 /\ elapsed' = t
                 /\ UNCHANGED <<steps, response>>
            ELSE /\ last_exc' = ""
                 /\ response' = [status_code |-> o.status_code, text |-> o.text]
                 /\ steps' = steps + 1
                 /\ IF ~StatusOk(o.status_code)
                    THEN /\ result' = ExecuteReturn(NormalFailed(steps + 1, label, o.status_code), t)
                         /\ pc' = "done"
                         /\ elapsed' = t
                    ELSE IF after = "done"
                    THEN /\ result' = ExecuteReturn(NormalSucceeded(steps + 1), t)
                         /\ pc' = "done"
                         /\ elapsed' = t
                    ELSE /\ pc' = after
                         /\ elapsed' = t + BrowseSleep
                         /\ UNCHANGED result
    /\ UNCHANGED <<scenario, timeout, retry_count, net, driver_vars, sup_vars, main_vars>>

\* Step 1: Query merchant for products
QueryMerchant == NormalStep("normal_1", "merchant", "Merchant query failed: ", "normal_2")

\* Step 2: Get payment methods
GetPaymentMethods == NormalStep("normal_2", "credentials", "Payment methods failed: ", "normal_3")

\* Step 3: Initiate payment
InitiatePayment == NormalStep("normal_3", "payment_processor", "Payment failed: ", "done")

\* variant: a request that raises is not counted
LoopAttempt_NoCountOnError ==
    /\ pc = "loop"
    /\ LoopContinues
    /\ \E o \in net :
         /\ sent' = Append(sent, "merchant")
         /\ seen' = seen \cup {o.status_code}
         /\ retry_count' = IF o.kind # "response" THEN retry_count ELSE retry_count + 1
         /\ IF o.kind # "response"
            THEN \* except requests.Timeout / except Exception: count and continue
                 /\ last_exc' = Str(o)
                 /\ elapsed' = elapsed + Latency(o, LoopRequestTimeout)
                 /\ pc' = "loop"
                 /\ UNCHANGED <<response, result>>
            ELSE LET r == [status_code |-> o.status_code, text |-> o.text]
                     t == elapsed + Latency(o, LoopRequestTimeout) + LoopSleep
                 IN  /\ last_exc' = ""
                     /\ response' = r
                     /\ elapsed' = t
                     /\ IF GaveUp(r)
                        THEN /\ result' = ExecuteReturn(LoopGaveUp(retry_count + 1), t)
                             /\ pc' = "done"
                        ELSE /\ pc' = "loop"
                             /\ UNCHANGED result
    /\ UNCHANGED <<scenario, timeout, steps, net, driver_vars, sup_vars, main_vars>>

\* one iteration of the while loop of _infinite_loop_transaction
LoopAttempt ==
    /\ pc = "loop"
    /\ LoopContinues
    /\ \E o \in net :
         /\ sent' = Append(sent, "merchant")
         /\ seen' = seen \cup {o.status_code}
         /\ retry_count' = retry_count + 1
         /\ IF o.kind # "response"
            THEN \* except requests.Timeout / except Exception: count and continue
                 /\ last_exc' = Str(o)
                 /\ elapsed' = elapsed + Latency(o, LoopRequestTimeout)
                 /\ pc' = "loop"
                 /\ UNCHANGED <<response, result>>
            ELSE LET r == [status_code |-> o.status_code, text |-> o.text]
                     t == elapsed + Latency(o, LoopRequestTimeout) + LoopSleep
                 IN  /\ last_exc' = ""
                     /\ response' = r
                     /\ elapsed' = t
                     /\ IF GaveUp(r)
                        THEN /\ result' = ExecuteReturn(LoopGaveUp(retry_count + 1), t)
                             /\ pc' = "done"
                        ELSE /\ pc' = "loop"
                             /\ UNCHANGED result
    /\ UNCHANGED <<scenario, timeout, steps, net, driver_vars, sup_vars, main_vars>>

\* the loop of _infinite_loop_transaction ends: "Reached max retries or timeout"
LoopExit ==
    /\ pc = "loop"
    /\ ~LoopContinues
    /\ result' = ExecuteReturn(LoopExhausted(retry_count), elapsed)
    /\ pc' = "done"
    /\ UNCHANGED <<scenario, timeout, elapsed, steps, retry_count, response, last_exc, sent,
                   seen, net, driver_vars, sup_vars, main_vars>>

\* _retry_storm_transaction: "Normal shopping first", errors ignored
StormCatalog ==
    /\ pc = "storm_catalog"
    /\ \E o \in net :
         /\ sent' = Append(sent, "merchant")
         /\ seen' = seen \cup {o.status_code}
         /\ last_exc' = IF o.kind # "response" THEN Str(o) ELSE ""
         /\ elapsed' = elapsed + Latency(o, CatalogTimeout) + CatalogSleep
    /\ retry_count' = 0
    /\ pc' = "storm_loop"
    /\ UNCHANGED <<scenario, timeout, steps, response, result, net, driver_vars, sup_vars, main_vars>>

\* one iteration of the while loop of _retry_storm_transaction
StormAttempt ==
    /\ pc = "storm_loop"
    /\ StormContinues
    /\ \E o \in net :
         /\ sent' = Append(sent, "payment_processor")
         /\ seen' = seen \cup {o.status_code}
         /\ last_exc' = IF o.kind # "response" THEN Str(o) ELSE ""
         /\ retry_count' = retry_count + 1
         /\ elapsed' = elapsed + Latency(o, StormRequestTimeout) + StormSleep
    /\ pc' = "storm_loop"
    /\ UNCHANGED <<scenario, timeout, steps, response, result, net, driver_vars, sup_vars, main_vars>>

\* the loop of _retry_storm_transaction ends
StormExit ==
    /\ pc = "storm_loop"
    /\ ~StormContinues
    /\ result' = ExecuteReturn(StormResult(retry_count), elapsed)
    /\ pc' = "done"
    /\ UNCHANGED <<scenario, timeout, elapsed, steps, retry_count, response, last_exc, sent,
                   seen, net, driver_vars, sup_vars, main_vars>>

\* main() is not part of the run
NoMain ==
    /\ argv = [scenario |-> "", num_runs |-> 0, path_exists |-> FALSE]
    /\ mpc = "none"
    /\ exit_code = -1

\* no AgentOrchestrator exists
NoSupervisor ==
    /\ procs = <<>>
    /\ processes = <<>>
    /\ spc = "none"
    /\ ai = 0
    /\ sret = "none"
    /\ calls = <<>>
    /\ spawned_now = {}
    /\ pre_healthy = FALSE

DriverIdle ==
    /\ variant = "executor"
    /\ scenarios = <<>>
    /\ num_runs = 0
    /\ si = 1
    /\ i = 0
    /\ dpc = "none"
    /\ now = 0
    /\ metrics = <<>>
    /\ saved = <<>>

\* one call execute_transaction(scenario, timeout) on a fresh executor
Init ==
    /\ scenario \in ScenarioNames
    /\ timeout \in TimeoutChoices
    /\ pc = "start"
    /\ elapsed = 0
    /\ steps = 0
    /\ retry_count = 0
    /\ response = NoResponse
    /\ last_exc = ""
    /\ sent = <<>>
    /\ seen = {}
    /\ result = NoResult
    /\ net = AllOutcomes
    /\ DriverIdle
    /\ NoSupervisor
    /\ NoMain

Next ==
    \/ Begin
    \/ QueryMerchant
    \/ GetPaymentMethods
    \/ InitiatePayment
    \/ LoopAttempt
    \/ LoopExit
    \/ StormCatalog
    \/ StormAttempt
    \/ StormExit

Spec == Init /\ [][Next]_vars

----------------------------------------------------------------------------
(* ExperimentRunner: src/experiment/run_experiment.py and src/scripts/run_experiment.py *)

\* agents that always answer the same way, and two pairs of answers
Ambiguous200 == [kind |-> "response", status_code |-> 200, text |-> "not found", latency |-> 0]
Rejecting200 == [kind |-> "response", status_code |-> 200, text |-> "Cannot Find it", latency |-> 0]
Created201 == [kind |-> "response", status_code |-> 201, text |-> "", latency |-> 0]
TimedOut == [kind |-> "Timeout", status_code |-> 0, text |-> "", latency |-> 0]
Refused == [kind |-> "ConnectionError", status_code |-> 0, text |-> "", latency |-> 0]

DriverNets ==
    { {Ambiguous200}, {TimedOut}, {Refused},
      {Ambiguous200, Rejecting200}, {Ambiguous200, Created201} }

\* main(): --scenario all or one name; run_experiment / run_scenario also
\* accept a list with a name execute_transaction does not know
ScenarioLists ==
    { <<"normal", "infinite_loop", "retry_storm">>, <<"normal", "bogus">> }
      \cup { <<s>> : s \in ScenarioNames }

\* variant: transaction ids counted from 1
TransactionMetrics_OneBased(scen, transaction_id, res) ==
    [scenario       |-> scen,
     transaction_id |-> transaction_id + 1,
     duration       |-> res.duration,
     success        |-> res.success,
     steps          |-> res.steps,
     error_message  |-> Get(res, "error", "")]

\* experiment/run_experiment.py, lines 77-84
TransactionMetrics(scen, transaction_id, res) ==
    [scenario       |-> scen,
     transaction_id |-> transaction_id,
     duration       |-> res.duration,
     success        |-> res.success,
     steps          |-> res.steps,
     error_message  |-> Get(res, "error", "")]

\* experiment/run_experiment.py, lines 98-104: the record of the except
\* clause; steps keeps the dataclass default 0
FallbackMetrics(scen, transaction_id, e) ==
    [scenario       |-> scen,
     transaction_id |-> transaction_id,
     duration       |-> 0,
     success        |-> FALSE,
     steps          |-> 0,
     error_message  |-> e]

\* scripts/run_experiment.py, lines 74-85: the simulated outcome of a scenario
Simulated(scen) ==
    IF scen = "normal" THEN [sleep |-> 5, success |-> TRUE, error |-> ""]
    ELSE IF scen = "infinite_loop"
    THEN [sleep |-> 20, success |-> FALSE, error |-> "Timeout: contradictory mandate"]
    ELSE [sleep |-> 15, success |-> FALSE, error |-> "Payment retry limit exceeded"]

\* scripts/run_experiment.py, lines 68-99: _run_single_transaction at clock t
ScriptsMetrics(scen, tx_id, t) ==
    [scenario       |-> scen,
     transaction_id |-> tx_id,
     start_time     |-> t,
     end_time       |-> t + Simulated(scen).sleep,
     duration       |-> (t + Simulated(scen).sleep) - t,
     success        |-> Simulated(scen).success,
     error_message  |-> Simulated(scen).error]

\* scripts/run_experiment.py, lines 56-64: the record of the except clause
ScriptsFallback(scen, tx_id, t, e) ==
    [scenario       |-> scen,
     transaction_id |-> tx_id,
     start_time     |-> t,
     end_time       |-> t,
     duration       |-> 0,
     success        |-> FALSE,
     error_message  |-> e]

\* experiment: _run_scenario calls self.executor.execute_transaction(scenario)
CallExecutor ==
    /\ variant = "experiment"
    /\ dpc = "loop"
    /\ i < num_runs
    /\ dpc' = "call"
    /\ scenario' = scenarios[si]
    /\ timeout' = DefaultTimeout
    /\ pc' = "start"
    /\ elapsed' = 0
    /\ steps' = 0
    /\ retry_count' = 0
    /\ response' = NoResponse
    /\ last_exc' = ""
    /\ sent' = <<>>
    /\ seen' = {}
    /\ result' = NoResult
    /\ UNCHANGED <<net, variant, scenarios, num_runs, si, i, now, metrics, saved, sup_vars, main_vars>>

\* variant: the new record is put in front of the list
RecordResult_Prepend ==
    /\ variant = "experiment"
    /\ dpc = "call"
    /\ pc \in {"done", "raised"}
    /\ metrics' = << IF pc = "done"
                     THEN TransactionMetrics(scenarios[si], i, result)
                     ELSE FallbackMetrics(scenarios[si], i, last_exc) >> \o metrics
    /\ now' = now + elapsed
    /\ i' = i + 1
    /\ dpc' = "loop"
    /\ pc' = "idle"
    /\ elapsed' = 0
    /\ steps' = 0
    /\ retry_count' = 0
    /\ response' = NoResponse
    /\ last_exc' = ""
    /\ sent' = <<>>
    /\ seen' = {}
    /\ result' = NoResult
    /\ UNCHANGED <<scenario, timeout, net, variant, scenarios, num_runs, si, saved, sup_vars, main_vars>>

\* experiment: the rest of the loop body once execute_transaction is back:
\* one record is appended, by the try block or by the except clause
RecordResult ==
    /\ variant = "experiment"
    /\ dpc = "call"
    /\ pc \in {"done", "raised"}
    /\ metrics' = Append(metrics,
                    IF pc = "done"
                    THEN TransactionMetrics(scenarios[si], i, result)
                    ELSE FallbackMetrics(scenarios[si], i, last_exc))
    /\ now' = now + elapsed
    /\ i' = i + 1
    /\ dpc' = "loop"
    /\ pc' = "idle"
    /\ elapsed' = 0
    /\ steps' = 0
    /\ retry_count' = 0
    /\ response' = NoResponse
    /\ last_exc' = ""
    /\ sent' = <<>>
    /\ seen' = {}
    /\ result' = NoResult
    /\ UNCHANGED <<scenario, timeout, net, variant, scenarios, num_runs, si, saved, sup_vars, main_vars>>

\* scripts: one iteration of the loop of run_scenario
ScriptsRun ==
    /\ variant = "scripts"
    /\ dpc = "loop"
    /\ i < num_runs
    /\ IF scenarios[si] \in KnownScenarios
       THEN /\ metrics' = Append(metrics, ScriptsMetrics(scenarios[si], i, now))
            /\ now' = now + Simulated(scenarios[si]).sleep
       ELSE \* raise ValueError, caught in run_scenario
            /\ metrics' = Append(metrics,
                            ScriptsFallback(scenarios[si], i, now,
                                            "Unknown scenario: " \o scenarios[si]))
            /\ now' = now
    /\ i' = i + 1
    /\ UNCHANGED <<exec_vars, net, variant, scenarios, num_runs, si, dpc, saved, sup_vars, main_vars>>

\* variant: only the records of the scenario just run are written
FileWritten_ScenarioOnly(t, ms) ==
    [name |-> t \div 10, content |-> SubSeq(ms, Len(ms) - num_runs + 1, Len(ms))]

\* _save_results: the file metrics_<timestamp>.json, the timestamp having a
\* resolution of one second, and the list dumped into it
FileWritten(t, ms) == [name |-> t \div 10, content |-> ms]

\* variant: the list is emptied once it has been written
SaveResults_ClearsMetrics ==
    /\ variant \in {"experiment", "scripts"}
    /\ dpc = "loop"
    /\ i = num_runs
    /\ saved' = Append(saved, FileWritten(now, metrics))
    /\ metrics' = <<>>
    /\ si' = si + 1
    /\ i' = 0
    /\ dpc' = IF si + 1 > Len(scenarios) THEN "finished" ELSE "loop"
    /\ UNCHANGED <<exec_vars, net, variant, scenarios, num_runs, now, sup_vars, main_vars>>

\* both drivers: the loop is over, _save_results writes the whole metrics
\* list to metrics_<timestamp>.json, and the next scenario begins
SaveResults ==
    /\ variant \in {"experiment", "scripts"}
    /\ dpc = "loop"
    /\ i = num_runs
    /\ saved' = Append(saved, FileWritten(now, metrics))
    /\ si' = si + 1
    /\ i' = 0
    /\ dpc' = IF si + 1 > Len(scenarios) THEN "finished" ELSE "loop"
    /\ UNCHANGED <<exec_vars, net, variant, scenarios, num_runs, now, metrics, sup_vars, main_vars>>

\* a fresh ExperimentRunner about to run the first scenario
DriverInit ==
    \/ Init
    \/ /\ variant \in {"experiment", "scripts"}
       /\ scenarios \in ScenarioLists
       /\ num_runs \in 0..MaxRuns
       /\ net \in IF variant = "experiment" THEN DriverNets ELSE {{}}
       /\ si = 1
       /\ i = 0
       /\ dpc = "loop"
       /\ now = 0
       /\ metrics = <<>>
       /\ saved = <<>>
       /\ scenario = ""
       /\ timeout = DefaultTimeout
       /\ pc = "idle"
       /\ elapsed = 0
       /\ steps = 0
       /\ retry_count = 0
       /\ response = NoResponse
       /\ last_exc = ""
       /\ sent = <<>>
       /\ seen = {}
       /\ result = NoResult
       /\ NoSupervisor
       /\ NoMain
    /\ NoMain

DriverNext ==
    \/ Next
    \/ CallExecutor
    \/ RecordResult
    \/ ScriptsRun
    \/ SaveResults

DriverSpec == DriverInit /\ [][DriverNext]_vars

----------------------------------------------------------------------------
(* AgentOrchestrator: src/experiment/agent_orchestrator.py *)

MaxCalls == 2            \* the number of start_agents / stop_agents calls explored

agent_configs ==
    << [name |-> "merchant", port |-> 8001],
       [name |-> "credentials_provider", port |-> 8002],
       [name |-> "payment_processor", port |-> 8003] >>

Ports == {agent_configs[k].port : k \in DOMAIN agent_configs}

\* a healthy agent somebody else started on the port
External(port) ==
    [port |-> port, origin |-> "external", alive |-> TRUE, serving |-> TRUE,
     log |-> "none", events |-> <<>>]

\* the process subprocess.Popen returns, its output going to the open log
\* handle; serving tells whether it answers on its port within the 15 s of
\* _wait_for_agent
Spawned(port, serving) ==
    [port |-> port, origin |-> "spawned", alive |-> TRUE, serving |-> serving,
     log |-> "open", events |-> <<>>]

\* the listeners that can be there before the orchestrator is used
InitialListeners ==
    { SelectSeq(<<External(8001), External(8002), External(8003)>>,
                LAMBDA e : e.port \in S) : S \in SUBSET Ports }

\* variant: the probe is skipped and the port always counts as free
check_port_available_Never(ps, port) == FALSE

\* check_port_available: some process answers a GET on the port
check_port_available(ps, port) ==
    \E p \in DOMAIN ps : ps[p].port = port /\ ps[p].alive /\ ps[p].serving

\* kill_process_on_port: SIGTERM to every process holding the port; dies
\* tells whether they are gone after the one-second pause
kill_process_on_port(ps, port, dies) ==
    [p \in DOMAIN ps |->
        IF ps[p].port = port /\ ps[p].alive
        THEN [ps[p] EXCEPT !.events = Append(@, "SIGTERM"),
                           !.alive = ~dies,
                           !.serving = @ /\ ~dies]
        ELSE ps[p]]

\* variant: the entry of an agent that was already running carries a log handle
TrackedExternal_WithLog(agent) ==
    [name |-> agent.name, process |-> 0, port |-> agent.port, log_file |-> TRUE]

\* start_agents, lines 96-100: the entry of an agent that was already running
TrackedExternal(agent) ==
    [name |-> agent.name, process |-> 0, port |-> agent.port, log_file |-> FALSE]

\* start_agents, lines 118-123: the entry of a launched agent
TrackedProcess(agent, pid) ==
    [name |-> agent.name, process |-> pid, port |-> agent.port, log_file |-> TRUE]

\* variant: the forced kill is issued whether or not the process has exited
Terminated_AlwaysKill(proc, graceful) ==
    [proc EXCEPT !.events = @ \o (IF proc.alive /\ ~graceful
                                  THEN <<"terminate", "timeout", "kill", "close">>
                                  ELSE <<"terminate", "exited", "kill", "close">>),
                 !.alive = FALSE,
                 !.serving = FALSE,
                 !.log = "closed"]

\* stop_agents, lines 165-176, on one process handle: terminate(), then
\* wait(timeout=3), which returns ("exited") or raises TimeoutExpired
\* ("timeout") and is then followed by kill(), then the log handle is closed
Terminated(proc, graceful) ==
    [proc EXCEPT !.events = @ \o (IF proc.alive /\ ~graceful
                                  THEN <<"terminate", "timeout", "kill", "close">>
                                  ELSE <<"terminate", "exited", "close">>),
                 !.alive = FALSE,
                 !.serving = FALSE,
                 !.log = "closed"]

\* start_agents is entered: lines 75-84, up to the cleanup loop
start_agents ==
    /\ spc = "idle"
    /\ calls' = Append(calls, "start")
    /\ spc' = "cleanup"
    /\ ai' = 1
    /\ sret' = "none"
    /\ spawned_now' = {}
    /\ pre_healthy' = \A port \in Ports :
                         \E p \in DOMAIN procs :
                           procs[p].port = port /\ procs[p].alive /\ procs[p].serving
    /\ UNCHANGED <<procs, processes>>

\* a caller invokes start_agents
StartAgents ==
    /\ variant = "supervisor"
    /\ Len(calls) < MaxCalls
    /\ start_agents
    /\ UNCHANGED <<exec_vars, net, driver_vars, main_vars>>

\* start_agents, lines 85-86: one iteration of "Clean up any existing processes"
Cleanup ==
    /\ spc = "cleanup"
    /\ \E dies \in BOOLEAN :
         procs' = kill_process_on_port(procs, agent_configs[ai].port, dies)
    /\ IF ai < Len(agent_configs)
       THEN ai' = ai + 1 /\ spc' = "cleanup"
       ELSE ai' = 1 /\ spc' = "starting"
    /\ UNCHANGED <<exec_vars, net, driver_vars, main_vars, processes, sret, calls, spawned_now, pre_healthy>>

\* variant: an agent that does not become ready aborts start_agents
StartAgent_AbortOnFailure ==
    /\ spc = "starting"
    /\ ai <= Len(agent_configs)
    /\ LET agent == agent_configs[ai] IN
       IF check_port_available(procs, agent.port)
       THEN /\ processes' = Append(processes, TrackedExternal(agent))
            /\ ai' = ai + 1
            /\ UNCHANGED <<procs, spc, sret, spawned_now>>
       ELSE \/ /\ spc' = "idle"
               /\ sret' = "raised"
               /\ UNCHANGED <<procs, processes, ai, spawned_now>>
            \/ \E ready \in BOOLEAN :
                 /\ procs' = Append(procs, Spawned(agent.port, ready))
                 /\ processes' = Append(processes, TrackedProcess(agent, Len(procs) + 1))
                 /\ spawned_now' = spawned_now \cup {Len(procs) + 1}
                 /\ IF ready
                    THEN ai' = ai + 1 /\ UNCHANGED <<spc, sret>>
                    ELSE spc' = "idle" /\ sret' = "raised" /\ UNCHANGED ai
    /\ UNCHANGED <<exec_vars, net, driver_vars, main_vars, calls, pre_healthy>>

\* start_agents, lines 90-142: one iteration of "Start each agent"
StartAgent ==
    /\ spc = "starting"
    /\ ai <= Len(agent_configs)
    /\ LET agent == agent_configs[ai] IN
       IF check_port_available(procs, agent.port)
       THEN \* "Agent already running": tracked without a handle
            /\ processes' = Append(processes, TrackedExternal(agent))
            /\ ai' = ai + 1
            /\ UNCHANGED <<procs, spc, sret, spawned_now>>
       ELSE \/ \* open(log_file) or subprocess.Popen raises
               /\ spc' = "idle"
               /\ sret' = "raised"
               /\ UNCHANGED <<procs, processes, ai, spawned_now>>
            \/ \* launched; _wait_for_agent says whether it became ready,
               \* and a failure is only printed
               \E ready \in BOOLEAN :
                 /\ procs' = Append(procs, Spawned(agent.port, ready))
                 /\ processes' = Append(processes, TrackedProcess(agent, Len(procs) + 1))
                 /\ spawned_now' = spawned_now \cup {Len(procs) + 1}
                 /\ ai' = ai + 1
                 /\ UNCHANGED <<spc, sret>>
    /\ UNCHANGED <<exec_vars, net, driver_vars, main_vars, calls, pre_healthy>>

\* start_agents, lines 144-145
StartReturn ==
    /\ spc = "starting"
    /\ ai > Len(agent_configs)
    /\ sret' = "True"
    /\ spc' = "idle"
    /\ UNCHANGED <<exec_vars, net, driver_vars, main_vars, procs, processes, ai, calls, spawned_now,
                   pre_healthy>>

\* stop_agents is entered: lines 158-161, up to the loop over self.processes
stop_agents ==
    /\ spc = "idle"
    /\ calls' = Append(calls, "stop")
    /\ spc' = "stopping"
    /\ ai' = 1
    /\ UNCHANGED <<procs, processes, sret, spawned_now, pre_healthy>>

\* a caller invokes stop_agents
StopAgents ==
    /\ variant = "supervisor"
    /\ Len(calls) < MaxCalls
    /\ stop_agents
    /\ UNCHANGED <<exec_vars, net, driver_vars, main_vars>>

\* stop_agents, lines 162-180: one iteration of the loop over self.processes
StopAgent ==
    /\ spc = "stopping"
    /\ ai <= Len(processes)
    /\ LET item == processes[ai] IN
       IF item.process # 0
       THEN \E graceful \in BOOLEAN :
              procs' = [procs EXCEPT ![item.process] = Terminated(@, graceful)]
       ELSE \E dies \in BOOLEAN :
              procs' = kill_process_on_port(procs, item.port, dies)
    /\ ai' = ai + 1
    /\ UNCHANGED <<exec_vars, net, driver_vars, main_vars, processes, spc, sret, calls, spawned_now,
                   pre_healthy>>

\* stop_agents, line 182
StopReturn ==
    /\ spc = "stopping"
    /\ ai > Len(processes)
    /\ spc' = "idle"
    /\ UNCHANGED <<exec_vars, net, driver_vars, main_vars, procs, processes, ai, sret, calls, spawned_now,
                   pre_healthy>>

\* a fresh AgentOrchestrator, used directly through start_agents / stop_agents
SupervisorInit ==
    /\ variant = "supervisor"
    /\ procs \in InitialListeners
    /\ processes = <<>>
    /\ spc = "idle"
    /\ ai = 0
    /\ sret = "none"
    /\ calls = <<>>
    /\ spawned_now = {}
    /\ pre_healthy = FALSE
    /\ NoMain
    /\ net = {}
    /\ scenarios = <<>>
    /\ num_runs = 0
    /\ si = 1
    /\ i = 0
    /\ dpc = "none"
    /\ now = 0
    /\ metrics = <<>>
    /\ saved = <<>>
    /\ scenario = ""
    /\ timeout = DefaultTimeout
    /\ pc = "idle"
    /\ elapsed = 0
    /\ steps = 0
    /\ retry_count = 0
    /\ response = NoResponse
    /\ last_exc = ""
    /\ sent = <<>>
    /\ seen = {}
    /\ result = NoResult

SupervisorNext ==
    \/ StartAgents
    \/ Cleanup
    \/ StartAgent
    \/ StartReturn
    \/ StopAgents
    \/ StopAgent
    \/ StopReturn

SupervisorSpec == SupervisorInit /\ [][SupervisorNext]_vars

----------------------------------------------------------------------------
(* main and run_experiment: src/experiment/run_experiment.py *)

\* the values argparse accepts for --scenario
choices == {"normal", "infinite_loop", "retry_storm", "all"}

\* the command lines explored: --scenario, --num-runs, and whether the
\* directory named by --ap2-path exists
MainArgs ==
    [scenario : choices \cup {"bogus"}, num_runs : {0, 1}, path_exists : BOOLEAN]

\* who listens on the agent ports when main starts: nobody, or three healthy agents
MainListeners == {<<>>, <<External(8001), External(8002), External(8003)>>}

\* what the agents answer during the experiment: nothing listens, or one of
\* the profiles of running agents
MainNets ==
    IF \A port \in Ports : ~check_port_available(procs, port)
    THEN {{Refused}}
    ELSE {{Ambiguous200}, {Ambiguous200, Rejecting200}, {Refused}}

\* main, line 173: parser.parse_args() exits with status 2 on a --scenario
\* outside choices
MainParse ==
    /\ mpc = "parse"
    /\ IF argv.scenario \in choices
       THEN mpc' = "check" /\ UNCHANGED exit_code
       ELSE mpc' = "exited" /\ exit_code' = 2
    /\ UNCHANGED <<exec_vars, net, driver_vars, sup_vars, argv>>

\* main, lines 175-190: the path check, then the runner and its arguments
MainCheckPath ==
    /\ mpc = "check"
    /\ IF ~argv.path_exists
       THEN /\ mpc' = "exited"
            /\ exit_code' = 1
            /\ UNCHANGED <<scenarios, num_runs>>
       ELSE /\ mpc' = "enter"
            /\ scenarios' = IF argv.scenario = "all"
                            THEN <<"normal", "infinite_loop", "retry_storm">>
                            ELSE <<argv.scenario>>
            /\ num_runs' = argv.num_runs
            /\ UNCHANGED exit_code
    /\ UNCHANGED <<exec_vars, net, variant, si, i, dpc, now, metrics, saved, sup_vars, argv>>

\* run_experiment, line 52: the with statement calls __enter__, which calls
\* start_agents
MainEnter ==
    /\ mpc = "enter"
    /\ start_agents
    /\ mpc' = "entering"
    /\ UNCHANGED <<exec_vars, net, driver_vars, argv, exit_code>>

\* run_experiment, lines 55-56: __enter__ returned, the loop over the scenarios begins
MainBody ==
    /\ mpc = "entering"
    /\ spc = "idle"
    /\ sret = "True"
    /\ mpc' = "body"
    /\ dpc' = "loop"
    /\ net' \in MainNets
    /\ UNCHANGED <<exec_vars, variant, scenarios, num_runs, si, i, now, metrics, saved,
                   sup_vars, argv, exit_code>>

\* start_agents raised inside __enter__: the with body and __exit__ are
\* skipped, nothing in run_experiment or main catches the exception, and the
\* interpreter ends with status 1
MainRaise ==
    /\ mpc = "entering"
    /\ spc = "idle"
    /\ sret = "raised"
    /\ mpc' = "exited"
    /\ exit_code' = 1
    /\ UNCHANGED <<exec_vars, net, driver_vars, sup_vars, argv>>

\* _save_results, lines 114-115, under main: opening or writing the metrics
\* file raises; the exception leaves _run_scenario and the with body
MainSaveRaises ==
    /\ mpc = "body"
    /\ dpc = "loop"
    /\ i = num_runs
    /\ dpc' = "raised"
    /\ UNCHANGED <<exec_vars, net, variant, scenarios, num_runs, si, i, now, metrics, saved,
                   sup_vars, main_vars>>

\* run_experiment, line 52: the with body is over or has raised, __exit__
\* calls stop_agents
MainExit ==
    /\ mpc = "body"
    /\ dpc \in {"finished", "raised"}
    /\ stop_agents
    /\ mpc' = "exiting"
    /\ UNCHANGED <<exec_vars, net, driver_vars, argv, exit_code>>

\* run_experiment, lines 58-61, and the end of main: the summary is printed
\* and the interpreter ends with status 0; when the with body raised,
\* __exit__ returns None, the exception goes on out of main and the
\* interpreter ends with status 1
MainReturn ==
    /\ mpc = "exiting"
    /\ spc = "idle"
    /\ mpc' = "exited"
    /\ exit_code' = IF dpc = "raised" THEN 1 ELSE 0
    /\ UNCHANGED <<exec_vars, net, driver_vars, sup_vars, argv>>

\* the interpreter is about to call main()
MainInit ==
    /\ argv \in MainArgs
    /\ mpc = "parse"
    /\ exit_code = -1
    /\ variant = "experiment"
    /\ procs \in MainListeners
    /\ processes = <<>>
    /\ spc = "idle"
    /\ ai = 0
    /\ sret = "none"
    /\ calls = <<>>
    /\ spawned_now = {}
    /\ pre_healthy = FALSE
    /\ net = {}
    /\ scenarios = <<>>
    /\ num_runs = 0
    /\ si = 1
    /\ i = 0
    /\ dpc = "none"
    /\ now = 0
    /\ metrics = <<>>
    /\ saved = <<>>
    /\ scenario = ""
    /\ timeout = DefaultTimeout
    /\ pc = "idle"
    /\ elapsed = 0
    /\ steps = 0
    /\ retry_count = 0
    /\ response = NoResponse
    /\ last_exc = ""
    /\ sent = <<>>
    /\ seen = {}
    /\ result = NoResult

MainNext ==
    \/ MainParse
    \/ MainCheckPath
    \/ MainEnter
    \/ Cleanup
    \/ StartAgent
    \/ StartReturn
    \/ MainBody
    \/ MainRaise
    \/ CallExecutor
    \/ Begin
    \/ QueryMerchant
    \/ GetPaymentMethods
    \/ InitiatePayment
    \/ LoopAttempt
    \/ LoopExit
    \/ StormCatalog
    \/ StormAttempt
    \/ StormExit
    \/ RecordResult
    \/ SaveResults
    \/ MainSaveRaises
    \/ MainExit
    \/ StopAgent
    \/ StopReturn
    \/ MainReturn

MainSpec == MainInit /\ [][MainNext]_vars

----------------------------------------------------------------------------
(* Properties of execute_transaction *)

\* a request was issued in this step
Requested == sent' # sent

\* the bodies of Bodies that contain "cannot find" or "impossible" in some letter case
RejectionBodies == {"Cannot Find it", "IMPOSSIBLE"}

\* the response signals explicit rejection
SignalsRejection(resp) == resp.status_code = 404 \/ resp.text \in RejectionBodies

NormalOrder == <<"merchant", "credentials", "payment_processor">>

PaymentAttempts == Cardinality({k \in DOMAIN sent : sent[k] = "payment_processor"})

\* C1: normal scenario: when every call made returned status 200 the run is a
\* success with steps = 3 after three calls; when the first call returned 200
\* and the second returns a failing status the run ends at once as a failure
\* with steps = 2, and no request follows a finished run.
C1_NormalOutcome ==
    /\ [](scenario = "normal" /\ pc = "done" /\ seen = {200}
            => result.success /\ result.steps = 3 /\ Len(sent) = 3)
    /\ [][scenario = "normal" =>
            /\ (pc = "normal_2" /\ seen = {200} /\ Requested /\ last_exc' = ""
                  /\ response'.status_code # 200)
                 => (pc' = "done" /\ ~result'.success /\ result'.steps = 2 /\ Len(sent') = 2)
            /\ (pc = "done" => sent' = sent)]_vars

C1_Witness ==
    /\ scenario = "normal" /\ pc = "done"
    /\ seen = {200, 404} /\ Len(sent) = 2
    /\ ~result.success /\ result.steps = 2

\* C2: infinite_loop: a finished run in which every request was answered with
\* status 200 and no answer signalled rejection, and whose overall timeout has
\* not been reached, made exactly 20 attempts and is a failure with steps = 20.
C2_AmbiguousExhausts ==
    (scenario = "infinite_loop" /\ pc = "done" /\ seen = {200}
        /\ ~SignalsRejection(response) /\ elapsed < timeout)
      => (~result.success /\ result.steps = 20 /\ Len(sent) = 20)

C2_Witness ==
    /\ scenario = "infinite_loop" /\ pc = "done" /\ seen = {200}
    /\ response.text = "not found" /\ elapsed < timeout
    /\ ~result.success /\ result.steps = 20 /\ Len(sent) = 20

\* C3: infinite_loop: once the answer to the k-th request contains "cannot find"
\* in some letter case, the run is finished, a success, and steps = k with
\* 1 <= k <= 20 (k requests issued, none after it).
C3_CannotFindStops ==
    (scenario = "infinite_loop" /\ last_exc = "" /\ response.text = "Cannot Find it")
      => (pc = "done" /\ result.success /\ result.steps = Len(sent)
            /\ Len(sent) >= 1 /\ Len(sent) <= 20)

C3_Witness ==
    /\ scenario = "infinite_loop" /\ pc = "done"
    /\ response = [status_code |-> 200, text |-> "Cannot Find it"]
    /\ Len(sent) = 5 /\ result.success /\ result.steps = 5

\* C4: retry_storm: every finished run is a failure with a non-empty error, and
\* steps = payment attempts + 1 with at most 15 payment attempts, whatever the
\* catalog query and the payment attempts returned or raised.
C4_StormAlwaysFails ==
    (scenario = "retry_storm" /\ pc = "done")
      => /\ ~result.success
         /\ result.error # ""
         /\ result.steps = PaymentAttempts + 1
         /\ PaymentAttempts <= 15

C4_Witness ==
    /\ scenario = "retry_storm" /\ pc = "done"
    /\ seen = {0, 200, 404}
    /\ PaymentAttempts = 15 /\ result.steps = 16 /\ ~result.success

\* the descriptions str(e) of the exceptions a request can raise
RequestErrorTexts == {"Read timed out", "Connection refused"}

\* C6 as stated: whenever an exception was raised while the scenario ran (by
\* a request, or the ValueError for an unknown name), the result is a failure
\* whose error is an exception's description.
C6_AnyExceptionReported ==
    (pc = "done" /\ (0 \in seen \/ scenario \notin KnownScenarios))
      => /\ ~result.success
         /\ result.error \in RequestErrorTexts \cup {"Unknown scenario: " \o scenario}

\* C6 (amended): execute_transaction ends by returning a dict. For an unknown
\* scenario name it is a failure with steps = 0 and the ValueError's text; in
\* the normal scenario a request that raises ends the run as a failure whose
\* error is that exception's text and whose steps is the number of requests
\* completed before it. In infinite_loop and retry_storm a raising request is
\* swallowed and its text never reaches the result.
C6_UnswallowedExceptionReported ==
    pc = "done" =>
      /\ scenario \notin KnownScenarios
           => (~result.success /\ result.steps = 0 /\ sent = <<>>
                 /\ result.error = "Unknown scenario: " \o scenario)
      /\ (scenario = "normal" /\ 0 \in seen)
           => (~result.success /\ result.error \in RequestErrorTexts
                 /\ result.error = last_exc /\ result.steps = Len(sent) - 1)
      /\ scenario \in {"infinite_loop", "retry_storm"}
           => result.error \notin RequestErrorTexts

C6_Witness ==
    /\ pc = "done" /\ scenario = "normal"
    /\ seen = {0, 200} /\ Len(sent) = 3
    /\ result.error = "Read timed out" /\ result.steps = 2 /\ ~result.success

\* C7 as stated: a normal run whose every answer had a status in 200..299
\* completes the three steps and is a success.
C7_Any2xxCompletes ==
    (scenario = "normal" /\ pc = "done" /\ seen # {} /\ seen \subseteq 200..299)
      => (result.success /\ result.steps = 3)

\* C7 (amended): the normal scenario issues its requests in the order merchant,
\* credentials, payment processor; an answer whose status is not 200 (other
\* 2xx statuses included) ends the run at once as a failure and no request
\* follows; a run whose three answers all had status 200 is a success.
C7_OrderedHaltOnNon200 ==
    /\ [](scenario = "normal" =>
            /\ Len(sent) <= 3
            /\ sent = SubSeq(NormalOrder, 1, Len(sent))
            /\ (pc = "done" /\ seen = {200}) => (result.success /\ Len(sent) = 3))
    /\ [][scenario = "normal" =>
            /\ (Requested /\ last_exc' = "" /\ response'.status_code # 200)
                 => (pc' = "done" /\ ~result'.success)
            /\ (pc = "done" => sent' = sent)]_vars

C7_Witness ==
    /\ scenario = "normal" /\ pc = "done"
    /\ seen = {200, 201} /\ sent = <<"merchant", "credentials">>
    /\ response.status_code = 201 /\ ~result.success

\* C8: normal scenario: the returned step count is the number of requests
\* attempted, whether the run stopped on a failing status or on a request
\* that raised.
C8_StepsCountAttempts ==
    (scenario = "normal" /\ pc = "done") => result.steps = Len(sent)

\* C9: infinite_loop: a run is a success only if the last response received
\* had status 404 or a body with one of the failure phrases; without such a
\* response the run is a failure.
C9_SuccessOnlyOnRejection ==
    (scenario = "infinite_loop" /\ pc = "done")
      => /\ result.success => SignalsRejection(response)
         /\ ~SignalsRejection(response) => ~result.success

C9_Witness ==
    /\ scenario = "infinite_loop" /\ pc = "done"
    /\ response = [status_code |-> 200, text |-> "IMPOSSIBLE"]
    /\ 0 \in seen /\ result.success /\ result.steps = Len(sent)

\* C17 as stated: no request is issued once the overall timeout has elapsed
\* since the scenario started; checked on the requests after the first one.
C17_TimeoutBoundsRequests ==
    [][(Requested /\ sent # <<>>) => elapsed < timeout]_vars

\* C18: in infinite_loop and retry_storm a loop request is issued only while
\* the attempt count is below the budget and the elapsed time below the
\* overall timeout, and the loop is left only when one of the two limits is
\* hit; so at most 20 merchant queries (infinite_loop) and at most 15 payment
\* submissions (retry_storm) are issued and the reported count of attempts
\* (steps, less the catalog query in retry_storm) is within the budget.
C18_LoopWithinBudgetAndDeadline ==
    /\ [](/\ scenario = "infinite_loop" => (Len(sent) <= 20 /\ retry_count <= 20)
          /\ scenario = "retry_storm" => (PaymentAttempts <= 15 /\ retry_count <= 15)
          /\ (scenario = "infinite_loop" /\ pc = "done") => result.steps <= 20
          /\ (scenario = "retry_storm" /\ pc = "done") => result.steps - 1 <= 15)
    /\ [][/\ (Requested /\ pc = "loop") => (retry_count < 20 /\ elapsed < timeout)
          /\ (Requested /\ pc = "storm_loop") => (retry_count < 15 /\ elapsed < timeout)
          /\ (~Requested /\ pc = "loop" /\ pc' = "done")
               => (retry_count >= 20 \/ elapsed >= timeout)
          /\ (~Requested /\ pc = "storm_loop" /\ pc' = "done")
               => (retry_count >= 15 \/ elapsed >= timeout)]_vars

C18_Witness ==
    /\ scenario = "infinite_loop" /\ pc = "done"
    /\ elapsed >= timeout /\ timeout = DefaultTimeout
    /\ Len(sent) < 20 /\ Len(sent) > 0
    /\ result.steps = Len(sent)

\* C19: in infinite_loop a request that times out or raises is counted as one
\* attempt and the loop goes on; the run never ends with the error of a
\* request; when every request raised and the overall timeout was not reached
\* the result is a failure with steps = 20; and steps is always the number of
\* requests issued.
C19_LoopSwallowsErrors ==
    /\ [](scenario = "infinite_loop" /\ pc = "done"
            => /\ result.steps = Len(sent)
               /\ result.error \notin RequestErrorTexts
               /\ (seen = {0} /\ elapsed < timeout)
                    => (~result.success /\ result.steps = 20))
    /\ [][(scenario = "infinite_loop" /\ Requested /\ last_exc' # "")
            => (retry_count' = retry_count + 1 /\ pc' = "loop" /\ result' = result)]_vars

C19_Witness ==
    /\ scenario = "infinite_loop" /\ pc = "done"
    /\ seen = {0} /\ elapsed < timeout
    /\ ~result.success /\ result.steps = 20 /\ Len(sent) = 20

\* every request returns or raises, and the executor goes on to its next step
LiveSpec == Spec /\ WF_vars(Next)

\* C20: execute_transaction terminates for every scenario name and every
\* behaviour of the agents; each iteration of the two loops adds one to the
\* attempt counter, whether the request answered, timed out or raised, so
\* that the loops end after at most 20 / 15 iterations.
C20_Terminates ==
    /\ <>(pc = "done")
    /\ [][(Requested /\ pc \in {"loop", "storm_loop"})
            => retry_count' = retry_count + 1]_vars
    /\ [](/\ pc = "loop" => Len(sent) = retry_count /\ retry_count <= 20
          /\ pc = "storm_loop" => PaymentAttempts = retry_count /\ retry_count <= 15)

C20_Witness ==
    /\ scenario = "retry_storm" /\ pc = "done"
    /\ timeout = DefaultTimeout /\ elapsed < timeout
    /\ PaymentAttempts = 15 /\ 0 \in seen /\ 200 \in seen

----------------------------------------------------------------------------
(* Properties of the drivers *)

ResultOk(r) == r.steps >= 0 /\ r.duration >= 0 /\ (r.success => r.error = "")

\* the records of the scripts driver have no steps field
RecordOk(m) ==
    /\ "steps" \in DOMAIN m => m.steps >= 0
    /\ m.duration >= 0
    /\ m.success => m.error_message = ""

\* C5: the dict execute_transaction returns and every record in the metrics
\* list of either driver, fallback records included, has steps >= 0,
\* duration >= 0 and an empty error text whenever success is true.
C5_ResultInvariant ==
    /\ pc = "done" => ResultOk(result)
    /\ \A k \in DOMAIN metrics : RecordOk(metrics[k])

C5_Witness ==
    /\ variant = "scripts" /\ dpc = "finished"
    /\ scenarios = <<"normal", "bogus">> /\ num_runs = 2
    /\ metrics[2].success /\ metrics[2].duration = 5
    /\ ~metrics[4].success /\ metrics[4].error_message = "Unknown scenario: bogus"

\* C10: under either driver the metrics list holds, for every scenario already
\* finished, exactly num_runs records of that scenario with transaction ids
\* 0..num_runs-1, and one record per iteration done of the current scenario.
C10_OneRecordPerIteration ==
    variant \in {"experiment", "scripts"} =>
      /\ Len(metrics) = (si - 1) * num_runs + i
      /\ \A k \in 1..Len(scenarios) :
           k < si =>
             /\ Cardinality({j \in DOMAIN metrics : metrics[j].scenario = scenarios[k]}) = num_runs
             /\ \A j \in 1..num_runs :
                  /\ metrics[(k - 1) * num_runs + j].scenario = scenarios[k]
                  /\ metrics[(k - 1) * num_runs + j].transaction_id = j - 1

C10_Witness ==
    /\ variant = "experiment" /\ dpc = "finished"
    /\ scenarios = <<"normal", "infinite_loop", "retry_storm">> /\ num_runs = 2
    /\ Len(metrics) = 6
    /\ metrics[1].success
    /\ metrics[3].success /\ ~metrics[4].success
    /\ ~metrics[6].success /\ metrics[6].transaction_id = 1


\* C11 as stated: the file written after scenario k holds exactly the
\* num_runs records of scenario k, and a finished experiment over S scenarios
\* has left S files.
C11_OneFilePerScenario ==
    variant \in {"experiment", "scripts"} =>
      /\ \A k \in DOMAIN saved :
           saved[k].content = SubSeq(metrics, (k - 1) * num_runs + 1, k * num_runs)
      /\ dpc = "finished"
           => Cardinality({saved[k].name : k \in DOMAIN saved}) = Len(scenarios)

\* C11 (amended): the driver writes once per completed scenario, at the moment
\* the scenario's loop ends, and the k-th write holds the whole metrics list
\* accumulated so far: the records of scenarios 1..k, k * num_runs of them.
C11_CumulativeWritePerScenario ==
    variant \in {"experiment", "scripts"} =>
      /\ Len(saved) = si - 1
      /\ \A k \in DOMAIN saved :
           /\ Len(saved[k].content) = k * num_runs
           /\ saved[k].content = SubSeq(metrics, 1, k * num_runs)

C11_Witness ==
    /\ variant = "experiment" /\ dpc = "finished"
    /\ Len(scenarios) = 3 /\ num_runs = 2
    /\ Len(saved) = 3
    /\ Len(saved[2].content) = 4
    /\ saved[2].content[1].scenario = "normal"
    /\ saved[3].content = metrics


----------------------------------------------------------------------------
(* Properties of the supervisor *)

LastCall == IF calls = <<>> THEN "none" ELSE calls[Len(calls)]

\* some process answers on the port
Served(port) == \E p \in DOMAIN procs : procs[p].port = port /\ procs[p].alive /\ procs[p].serving

\* the agents the running (or latest) start_agents call has dealt with
Processed == IF spc = "cleanup" THEN 0 ELSE ai - 1

\* the entry the running (or latest) start_agents call appended for agent k
NewEntry(k) == processes[Len(processes) - Processed + k]

C13_ReadinessFailureContinues ==
    /\ [](variant = "supervisor" /\ LastCall = "start"
            => /\ \A k \in 1..Processed : NewEntry(k).name = agent_configs[k].name
               /\ (spc = "idle" /\ sret = "True") => Processed = 3)
    /\ [][(spc = "starting" /\ Len(procs') = Len(procs) + 1
             /\ ~procs'[Len(procs')].serving)
            => (spc' = "starting" /\ sret' = sret /\ ai' = ai + 1
                  /\ Len(processes') = Len(processes) + 1)]_vars

C13_Witness ==
    /\ variant = "supervisor" /\ calls = <<"start">>
    /\ spc = "idle" /\ sret = "True"
    /\ Len(processes) = 3
    /\ processes[1].process # 0 /\ ~procs[processes[1].process].serving
    /\ processes[2].process # 0 /\ procs[processes[2].process].serving
    /\ processes[3].process # 0 /\ ~procs[processes[3].process].serving

\* what was done through the handle of process p, in order
HandleEvents(p) == SelectSeq(procs[p].events, LAMBDA e : e # "SIGTERM")

\* C14: the calls stop_agents makes on a process handle come in the order
\* terminate, wait, kill only after a wait that timed out, close of the log
\* handle; and once stop_agents has returned every tracked agent with a handle
\* has been sent terminate and its log handle is closed.
C14_TerminateKillClose ==
    variant = "supervisor" =>
      /\ \A p \in DOMAIN procs :
           LET ev == HandleEvents(p) IN
           \A j \in DOMAIN ev :
             /\ ev[j] = "terminate" => (j = 1 \/ ev[j - 1] = "close")
             /\ ev[j] \in {"exited", "timeout"} => (j > 1 /\ ev[j - 1] = "terminate")
             /\ ev[j] = "kill" => (j > 1 /\ ev[j - 1] = "timeout")
             /\ ev[j] = "close" => (j > 1 /\ ev[j - 1] \in {"exited", "kill"})
      /\ (LastCall = "stop" /\ spc = "idle")
           => \A k \in DOMAIN processes :
                processes[k].process # 0
                  => LET ev == HandleEvents(processes[k].process) IN
                     /\ ev # <<>>
                     /\ ev[1] = "terminate"
                     /\ ev[Len(ev)] = "close"
                     /\ procs[processes[k].process].log = "closed"
                     /\ ~procs[processes[k].process].alive

C14_Witness ==
    /\ variant = "supervisor" /\ calls = <<"start", "stop">> /\ spc = "idle"
    /\ Len(processes) = 3
    /\ processes[1].process # 0 /\ processes[2].process # 0
    /\ HandleEvents(processes[1].process) = <<"terminate", "exited", "close">>
    /\ HandleEvents(processes[2].process) = <<"terminate", "timeout", "kill", "close">>

\* C15: when the port of the agent start_agents has reached is already served,
\* the iteration launches nothing and appends an entry without process handle
\* and without log handle; the iteration of stop_agents on such an entry does
\* nothing through a handle (no terminate, kill or close on any process) and
\* signals the processes holding the entry's port.
C15_ExternalAgentUntouched ==
    /\ [](variant = "supervisor"
            => \A k \in DOMAIN processes : processes[k].process = 0 => ~processes[k].log_file)
    /\ [][/\ (spc = "starting" /\ ai <= 3 /\ Served(agent_configs[ai].port))
               => (/\ procs' = procs
                   /\ processes' = Append(processes,
                                     [name |-> agent_configs[ai].name, process |-> 0,
                                      port |-> agent_configs[ai].port, log_file |-> FALSE]))
          /\ (spc = "stopping" /\ ai <= Len(processes) /\ processes[ai].process = 0)
               => \A p \in DOMAIN procs :
                    IF procs[p].port = processes[ai].port /\ procs[p].alive
                    THEN procs'[p].events = Append(procs[p].events, "SIGTERM")
                    ELSE procs'[p] = procs[p]]_vars

C15_Witness ==
    /\ variant = "supervisor" /\ calls = <<"start", "stop">> /\ spc = "idle"
    /\ Len(processes) = 3
    /\ processes[1].process = 0 /\ ~processes[1].log_file
    /\ procs[1].origin = "external" /\ procs[1].port = 8001
    /\ procs[1].events = <<"SIGTERM", "SIGTERM">> /\ ~procs[1].alive
    /\ processes[2].process # 0


----------------------------------------------------------------------------
(* Properties of main *)

\* C16 as stated: the exit status is 1 when the --ap2-path does not exist,
\* and then no agent was started and no scenario run; it is non-zero on a
\* scenario name argparse rejects; it is 0 in every other case.
C16_ExitCodes ==
    mpc = "exited" =>
      IF argv.scenario \notin choices
      THEN exit_code # 0
      ELSE IF ~argv.path_exists
           THEN exit_code = 1 /\ calls = <<>> /\ metrics = <<>> /\ saved = <<>>
           ELSE exit_code = 0

\* C21: the metrics list is append-only and ordered: a step leaves it as it
\* is or appends one record at its end, so that the records already there
\* keep their content and position; the records are grouped by scenario, in
\* the order in which the scenarios were requested.
C21_MetricsAppendOnly ==
    /\ [][\/ metrics' = metrics
          \/ /\ Len(metrics') = Len(metrics) + 1
             /\ SubSeq(metrics', 1, Len(metrics)) = metrics]_vars
    /\ [](variant \in {"experiment", "scripts"}
            => \A k \in DOMAIN metrics :
                 /\ num_runs > 0
                 /\ (k - 1) \div num_runs + 1 \in DOMAIN scenarios
                 /\ metrics[k].scenario = scenarios[(k - 1) \div num_runs + 1])

C21_Witness ==
    /\ variant = "experiment" /\ dpc = "finished"
    /\ scenarios = <<"normal", "infinite_loop", "retry_storm">>
    /\ num_runs = 2
    /\ Len(metrics) = 6
    /\ metrics[2].scenario = "normal" /\ metrics[3].scenario = "infinite_loop"
    /\ metrics[6].scenario = "retry_storm"


\* C24: the file a save writes holds the whole metrics list as it is at that
\* moment; so a later write never holds less than an earlier one, and when two
\* saves share a file name the file left on disk holds every record of both.
C24_LatestFileHoldsAll ==
    /\ [][saved' # saved
            => /\ Len(saved') = Len(saved) + 1
               /\ saved'[Len(saved')].content = metrics
               /\ metrics' = metrics]_vars
    /\ [](\A j, k \in DOMAIN saved :
            j < k => /\ Len(saved[j].content) <= Len(saved[k].content)
                     /\ SubSeq(saved[k].content, 1, Len(saved[j].content)) = saved[j].content)
    /\ [](saved # <<>> /\ dpc = "loop" /\ i = 0
            => saved[Len(saved)].content = metrics)

C24_Witness ==
    /\ variant = "experiment"
    /\ Len(saved) = 2
    /\ saved[1].name = saved[2].name
    /\ Len(saved[1].content) = 2 /\ Len(saved[2].content) = 4
    /\ SubSeq(saved[2].content, 1, 2) = saved[1].content


----------------------------------------------------------------------------
(* Properties of the supervisor's tracked list and of the with block *)

\* process p was sent terminate or kill through its handle
Signalled(p) == \E j \in DOMAIN procs[p].events : procs[p].events[j] \in {"terminate", "kill"}

\* C22 as stated: when run_experiment has returned or let an exception
\* through, every process start_agents launched has been sent terminate or
\* kill.
C22_SpawnedAlwaysTerminated ==
    (mpc = "exited" /\ calls # <<>>)
      => \A p \in DOMAIN procs : procs[p].origin = "spawned" => Signalled(p)

\* C23 as stated: between calls the tracked list has at most one entry for
\* each agent name, hence at most 3 entries, and no tracked handle is that
\* of a process stop_agents has already terminated.
C23_TrackedListClean ==
    (variant = "supervisor" /\ spc = "idle")
      => /\ Len(processes) <= 3
         /\ \A j, k \in DOMAIN processes :
              processes[j].name = processes[k].name => j = k
         /\ \A k \in DOMAIN processes :
              processes[k].process # 0 => ~Signalled(processes[k].process)

====
